---- MODULE Spec2Model ----
(***************************************************************************)
(* RetentionAI Pro (src/app.py): the cost function calculate_cost, the     *)
(* cost-optimisation loop that ranks the generated counterfactuals, the    *)
(* Streamlit session state that keeps the last report between script runs, *)
(* and the two renderers of a stored report (screen and PDF).              *)
(*                                                                         *)
(* Numbers.  The program computes on floats.  Feature values and costs are *)
(* modelled in fixed point, Scale units to 1.0, so that the tolerance      *)
(* 0.001 of calculate_cost is exactly Tolerance = 1 unit and a difference  *)
(* can lie below, on and above it.  NaN and infinite feature values are    *)
(* not modelled.  Probabilities are in units of 1/10000.                   *)
(***************************************************************************)
EXTENDS Integers, Sequences, FiniteSets, TLC

\* ------------------------------------------------------------------ bounds

\* Number of feature columns of X_test (original.columns).
NCols == 3

\* Number of customers (rows of X_test).
NCust == 3

\* ---------------------------------------------------- program constants

\* Fixed-point units per 1.0: one unit is the 0.001 of the tolerance test.
Scale == 1000

\* abs(val_orig - val_cf) > 0.001, in units of 1/Scale.
Tolerance == 1

\* cost_card.get(col, 10.0)
DefaultUnitCost == 10

\* total_CFs=3 asked of the generator.
TotalCFs == 3

\* cols = st.columns(3): the screen has three columns for the options.
ScreenCols == 3

\* prob > 0.5, in units of 1/10000.
RiskThreshold == 5000

\* lowest_cost = float('inf'): a value above every cost, written as a
\* sentinel below every cost (costs are never negative).
Inf == -1

\* best_opt = None, written as an index no list has.
NoneIdx == -1

\* ----------------------------------------------------------------- data

AllColumns ==
    << "MonthlyCharges", "tenure", "PaperlessBilling", "Contract_One year",
       "InternetService_No", "TotalCharges", "Contract_Two year" >>

\* original.columns, in frame order.
Columns == SubSeq(AllColumns, 1, NCols)

ColSet == { Columns[i] : i \in 1..Len(Columns) }

Customers == 1..NCust

Abs(x) == IF x < 0 THEN -x ELSE x

\* Python's format of n/d to an integer number of d-units: round half to even.
RoundHalfEven(n, d) ==
    LET q == n \div d
        r == n % d
    IN  IF 2 * r < d THEN q
        ELSE IF 2 * r > d THEN q + 1
        ELSE IF q % 2 = 0 THEN q ELSE q + 1

\* f"{v:.0f}": the value to no decimals.
Fmt0(v) == RoundHalfEven(v, Scale)

\* f"{c:.2f}": the value to two decimals, as a number of hundredths.
Fmt2(c) == RoundHalfEven(c, Scale \div 100)

\* f"{prob*100:.1f}%": the probability as a number of tenths of a percent.
FmtPct(p) == RoundHalfEven(p, 10)

\* ------------------------------------------------------- calculate_cost

CostCardKeys ==
    { "MonthlyCharges", "tenure", "TotalCharges", "Contract_One year",
      "Contract_Two year", "InternetService_No" }

cost_card(col) ==
    CASE col = "MonthlyCharges"     -> 1
      [] col = "tenure"             -> 1000
      [] col = "TotalCharges"       -> 1
      [] col = "Contract_One year"  -> 50
      [] col = "Contract_Two year"  -> 100
      [] col = "InternetService_No" -> 5

\* cost_card.get(col, 0): a table whose default makes some changes free.
CostCardGetFree(col) == IF col \in CostCardKeys THEN cost_card(col) ELSE 0

\* cost_card.get(col, 10.0)
CostCardGet(col) ==
    IF col \in CostCardKeys THEN cost_card(col) ELSE DefaultUnitCost

\* abs(...) >= 0.001: the boundary counted as a change.
ExceedsOrEqual(diff) == diff >= Tolerance

\* abs(val_orig - val_cf) > 0.001
Exceeds(diff) == diff > Tolerance

\* f"{col}: {val_orig:.0f} -> {val_cf:.0f}", kept as its three parts.
FormatChange(col, val_orig, val_cf) == << col, Fmt0(val_orig), Fmt0(val_cf) >>

\* DataFrame.astype(float): a new frame over the same columns.
AstypeFloat(df) == [c \in DOMAIN df |-> df[c]]

RECURSIVE CostLoop(_, _, _, _, _)
\* The for loop of calculate_cost from column i on.
CostLoop(orig_vals, cf_vals, i, total, changes) ==
    IF i > Len(Columns) THEN [total |-> total, changes |-> changes]
    ELSE LET col      == Columns[i]
             val_orig == orig_vals[col]
             val_cf   == cf_vals[col]
         IN  IF Exceeds(Abs(val_orig - val_cf))
             THEN LET diff      == Abs(val_orig - val_cf)
                      unit_cost == CostCardGet(col)
                      cost      == diff * unit_cost
                  IN  CostLoop(orig_vals, cf_vals, i + 1, total + cost,
                               Append(changes, FormatChange(col, val_orig, val_cf)))
             ELSE CostLoop(orig_vals, cf_vals, i + 1, total, changes)

\* calculate_cost(original, cf): (total, changes), and the two argument
\* frames as the call leaves them (it works on astype copies).
calculate_cost(original, cf) ==
    LET orig_vals == AstypeFloat(original)
        cf_vals   == AstypeFloat(cf)
        r         == CostLoop(orig_vals, cf_vals, 1, 0, << >>)
    IN  [total |-> r.total, changes |-> r.changes,
         original |-> original, cf |-> cf]

\* ------------------------------------------------------------ the assets

\* X_test.loc[[customer_id]]: the customer's row (a copy of the row of
\* X_test, which load_assets caches and nothing writes).
X_test(c) ==
    [col \in ColSet |->
        LET i == CHOOSE k \in 1..Len(Columns) : Columns[k] = col
        IN  (10 * i + c) * Scale + Scale \div 2]

\* model.predict_proba(customer_data)[0][1], in units of 1/10000: the loaded
\* classifier is a fixed artifact; every third customer is at or under the
\* threshold, the others are over it with probabilities of their own.
predict_proba(c) == IF c % 3 = 0 THEN RiskThreshold ELSE 6000 + 125 * c

\* One counterfactual row: the customer's row with column i moved by d and
\* column j moved by e, and the outcome column Churn = 0 (desired_class=0).
CFRow(cd, i, d, j, e) ==
    [col \in ColSet \cup {"Churn"} |->
        IF col = "Churn" THEN 0
        ELSE cd[col] + (IF col = Columns[i] THEN d ELSE 0)
                     + (IF col = Columns[j] THEN e ELSE 0)]

\* The rows the generator is taken to choose from: the customer's own row,
\* a row with two columns moved, and two rows of equal cost that move
\* different columns.
CFPool(cd) ==
    { CFRow(cd, 1, 0, 3, 0), CFRow(cd, 1, -1000, 3, -500),
      CFRow(cd, 1, -10000, 3, 0), CFRow(cd, 1, 0, 3, -1000) }

\* final_cfs_df: at most total_CFs rows, possibly none.
CandLists(cd) == UNION { [1..n -> CFPool(cd)] : n \in 0..TotalCFs }

\* ---------------------------------------------------------------- state

VARIABLES
    customer_id,    \* the sidebar's selected customer in the last script run
    button,         \* st.button(...) in the last script run
    session_keys,   \* the keys present in st.session_state
    report_ready,   \* st.session_state['report_ready']
    report_data,    \* st.session_state['report_data']
    best_cost,      \* st.session_state['best_cost']
    customer_data,  \* the frame customer_data at the end of the last run
    dice_generated, \* the rows the generator returned in the last run
    suggestions,    \* the frame suggestions at the end of the last run
    error,          \* the exception that ended the last run, or NoError
    rendered,       \* what the last run put on screen and in the PDF
    report_for,     \* history: the customer whose run stored report_data
    repeat,         \* history: the last two runs were analyses of one input
    arg_original,   \* calculate_cost alone: the frame passed as original
    arg_cf,         \* calculate_cost alone: the frame passed as cf
    cost_result     \* calculate_cost alone: what the call returned

vars ==
    << customer_id, button, session_keys, report_ready, report_data,
       best_cost, customer_data, dice_generated, suggestions, error, rendered,
       report_for, repeat, arg_original, arg_cf, cost_result >>

session == << session_keys, report_ready, report_data, best_cost >>

NoError == "none"

\* ------------------------------------------------- the optimisation loop

\* The outcome column dropped in the frame suggestions itself (a drop with
\* inplace=True on the row) instead of in a copy.
iloc_drop_inplace(sugg, i) ==
    LET row == sugg[i + 1]
        rec == [c \in (DOMAIN row) \ {"Churn"} |-> row[c]]
    IN  [rec |-> rec, suggestions |-> [sugg EXCEPT ![i + 1] = rec]]

\* rec = suggestions.iloc[[i]].drop('Churn', axis=1): a new one-row frame
\* without the outcome column; suggestions is left as it is.
iloc_drop(sugg, i) ==
    LET row == sugg[i + 1]
    IN  [rec |-> [c \in (DOMAIN row) \ {"Churn"} |-> row[c]],
         suggestions |-> sugg]

\* cost <= lowest_cost
LessOrEqual(cost, lowest_cost) == lowest_cost = Inf \/ cost <= lowest_cost

\* cost < lowest_cost
Less(cost, lowest_cost) == lowest_cost = Inf \/ cost < lowest_cost

\* report_data carried over from the session instead of a fresh list.
StaleReportList == IF "report_data" \in session_keys THEN report_data ELSE << >>

\* report_data = []
EmptyReportList == << >>

RECURSIVE OptLoop(_, _, _, _, _, _)
\* for i in range(len(suggestions)), from index i on (0-based as in the code).
OptLoop(cd, sugg, i, best_opt, lowest_cost, rd) ==
    IF i >= Len(sugg)
    THEN [customer_data |-> cd, suggestions |-> sugg, best_opt |-> best_opt,
          lowest_cost |-> lowest_cost, report_data |-> rd]
    ELSE LET d           == iloc_drop(sugg, i)
             cc          == calculate_cost(cd, d.rec)
             option_info == [id |-> i + 1, cost |-> cc.total,
                             changes |-> cc.changes, is_best |-> FALSE]
             better      == Less(cc.total, lowest_cost)
         IN  OptLoop(cc.original, d.suggestions, i + 1,
                     IF better THEN i ELSE best_opt,
                     IF better THEN cc.total ELSE lowest_cost,
                     Append(rd, option_info))

\* if best_opt is not None: report_data[best_opt]["is_best"] = True
MarkBestGuarded(rd, best_opt) ==
    IF best_opt = NoneIdx \/ best_opt + 1 > Len(rd)
    THEN [error |-> NoError, report_data |-> rd]
    ELSE [error |-> NoError,
          report_data |-> [rd EXCEPT ![best_opt + 1].is_best = TRUE]]

\* report_data[best_opt]["is_best"] = True; a list indexed by None raises
\* TypeError.
MarkBest(rd, best_opt) ==
    IF best_opt = NoneIdx
    THEN [error |-> "TypeError", report_data |-> rd]
    ELSE [error |-> NoError,
          report_data |-> [rd EXCEPT ![best_opt + 1].is_best = TRUE]]

\* Step 3 of the button's block: the loop, the mark, and what the three
\* stores would write; error says whether the stores are reached.
Analysis(cd, sugg) ==
    LET l == OptLoop(cd, sugg, 0, NoneIdx, Inf, EmptyReportList)
        m == MarkBest(l.report_data, l.best_opt)
    IN  [error |-> m.error, report_data |-> m.report_data,
         best_cost |-> l.lowest_cost, customer_data |-> l.customer_data,
         suggestions |-> l.suggestions]

\* ------------------------------------------------------------ the report

\* next(item for item in data if item["is_best"]): the first such item's
\* position (1-based), 0 when there is none (StopIteration).
FirstBest(data) ==
    IF \E k \in 1..Len(data) : data[k].is_best
    THEN CHOOSE k \in 1..Len(data) :
            data[k].is_best /\ \A j \in 1..(k - 1) : ~data[j].is_best
    ELSE 0

\* list.index(x): the first position holding a value equal to x.
ListIndex(data, x) ==
    CHOOSE k \in 1..Len(data) :
        data[k] = x /\ \A j \in 1..(k - 1) : data[j] # x

\* best = data[data.index(next(...))]
BestOf(data) == data[ListIndex(data, data[FirstBest(data)])]

\* The separator of ', '.join, as a piece of the same shape as a change.
Separator == << ", ", 0, 0 >>

RECURSIVE Join(_)
\* ', '.join(changes): the changes with a separator between neighbours.
Join(changes) ==
    IF Len(changes) <= 1 THEN changes
    ELSE << Head(changes), Separator >> \o Join(Tail(changes))

\* color = "green" if opt["is_best"] else "red"
ScreenColor(opt) == IF opt.is_best THEN "green" ELSE "red"

\* The labels of the two branches exchanged.
PdfStatusSwapped(opt) == IF opt.is_best THEN "(Rejected)" ELSE "(Recommended)"

\* status = "(Recommended)" if opt['is_best'] else "(Rejected)"
PdfStatus(opt) == IF opt.is_best THEN "(Recommended)" ELSE "(Rejected)"

\* Section A: the executive summary on screen.
ScreenView(cid, prob, data, best, bcost) ==
    [title_id |-> cid,
     prob     |-> FmtPct(prob),
     options  |-> [k \in 1..Len(data) |->
                     [id      |-> data[k].id,
                      color   |-> ScreenColor(data[k]),
                      cost    |-> Fmt2(data[k].cost),
                      changes |-> data[k].changes]],
     rec_id   |-> best.id,
     rec_cost |-> Fmt2(bcost)]

\* Section B: create_pdf() and the download button's file name.
create_pdf(cid, prob, data, best) ==
    [diag_id   |-> cid,
     prob      |-> FmtPct(prob),
     options   |-> [k \in 1..Len(data) |->
                      [id      |-> data[k].id,
                       status  |-> PdfStatus(data[k]),
                       cost    |-> Fmt2(data[k].cost),
                       actions |-> Join(data[k].changes)]],
     logic_id  |-> best.id,
     logic_changes |-> Join(best.changes),
     file_id   |-> cid]

NoScreen ==
    [title_id |-> 0, prob |-> 0, options |-> << >>, rec_id |-> 0, rec_cost |-> 0]

NoPdf ==
    [diag_id |-> 0, prob |-> 0, options |-> << >>, logic_id |-> 0,
     logic_changes |-> << >>, file_id |-> 0]

NoRender == [shown |-> FALSE, error |-> NoError, screen |-> NoScreen, pdf |-> NoPdf]

\* if st.session_state['report_ready']: the report on screen and as PDF,
\* from the session's values as they stand at that point of the run.
Display(cid, prob, ready, data, bcost) ==
    IF ~ready THEN NoRender
    ELSE IF FirstBest(data) = 0
         THEN [NoRender EXCEPT !.error = "StopIteration"]
    ELSE IF Len(data) > ScreenCols
         THEN [NoRender EXCEPT !.error = "IndexError"]
    ELSE [shown  |-> TRUE,
          error  |-> NoError,
          screen |-> ScreenView(cid, prob, data, BestOf(data), bcost),
          pdf    |-> create_pdf(cid, prob, data, BestOf(data))]

\* ----------------------------------------------------------- script runs

\* One run of the script, top to bottom: customer cid is selected in the
\* sidebar, the button is pressed or not, and when it is pressed the
\* generator returns cfs.
ScriptRun(cid, pressed, cfs) ==
    \E a \in {Analysis(X_test(cid), cfs)} :
    LET cd   == X_test(cid)
        prob == predict_proba(cid)
        ran  == prob > RiskThreshold /\ pressed
        stored == ran /\ a.error = NoError
        ready1 == IF stored THEN TRUE
                  ELSE IF "report_ready" \in session_keys THEN report_ready
                  ELSE FALSE
        data1  == IF stored THEN a.report_data ELSE report_data
        cost1  == IF stored THEN a.best_cost ELSE best_cost
    IN  \E d \in {Display(cid, prob, ready1, data1, cost1)} :
        /\ customer_id' = cid
        /\ button' = ran
        /\ customer_data' = IF ran THEN a.customer_data ELSE cd
        /\ dice_generated' = IF ran THEN cfs ELSE << >>
        /\ suggestions' = IF ran THEN a.suggestions ELSE << >>
        /\ repeat' = (ran /\ button /\ cid = customer_id /\ cfs = dice_generated)
        /\ IF prob > RiskThreshold
           THEN /\ session_keys' =
                     session_keys \cup {"report_ready"}
                     \cup (IF stored THEN {"report_data", "best_cost"} ELSE {})
                /\ report_ready' = ready1
                /\ report_data' = data1
                /\ best_cost' = cost1
                /\ report_for' = IF stored THEN cid ELSE report_for
                /\ error' = IF ran /\ a.error # NoError THEN a.error ELSE d.error
                /\ rendered' = IF ran /\ a.error # NoError THEN NoRender ELSE d
           ELSE /\ UNCHANGED << session_keys, report_ready, report_data,
                                best_cost, report_for >>
                /\ error' = NoError
                /\ rendered' = NoRender
        /\ UNCHANGED << arg_original, arg_cf, cost_result >>

\* The user picks a customer in the sidebar (or anything else reruns the
\* script without the button).
SelectCustomer == \E cid \in Customers : ScriptRun(cid, FALSE, << >>)

\* The user presses "Run AI Analysis & Generate Report", which the page
\* shows only for a high-risk customer.
PressButton ==
    /\ predict_proba(customer_id) > RiskThreshold
    /\ \E cfs \in CandLists(X_test(customer_id)) : ScriptRun(customer_id, TRUE, cfs)

NoCostResult == [called |-> FALSE, total |-> 0, changes |-> << >>]

\* The state after the first script run: the first customer of the index is
\* selected, the session is empty but for the flag the run itself sets.
Init ==
    /\ customer_id = 1
    /\ button = FALSE
    /\ session_keys = IF predict_proba(1) > RiskThreshold THEN {"report_ready"} ELSE {}
    /\ report_ready = FALSE
    /\ report_data = << >>
    /\ best_cost = 0
    /\ customer_data = X_test(1)
    /\ dice_generated = << >>
    /\ suggestions = << >>
    /\ error = NoError
    /\ rendered = NoRender
    /\ report_for = 0
    /\ repeat = FALSE
    /\ arg_original = X_test(1)
    /\ arg_cf = X_test(1)
    /\ cost_result = NoCostResult

Next == SelectCustomer \/ PressButton

Spec == Init /\ [][Next]_vars

\* ------------------------------------------------- calculate_cost alone

\* Feature values around the tolerance and around a rounding boundary.
CostVals == {500, 501, 502, 1500}

InitCost ==
    /\ customer_id = 1
    /\ button = FALSE
    /\ session_keys = {}
    /\ report_ready = FALSE
    /\ report_data = << >>
    /\ best_cost = 0
    /\ customer_data = X_test(1)
    /\ dice_generated = << >>
    /\ suggestions = << >>
    /\ error = NoError
    /\ rendered = NoRender
    /\ report_for = 0
    /\ repeat = FALSE
    /\ arg_original \in [ColSet -> CostVals]
    /\ arg_cf \in [ColSet -> CostVals]
    /\ cost_result = NoCostResult

\* cost, details = calculate_cost(original, cf)
CallCalculateCost ==
    /\ ~cost_result.called
    /\ \E r \in {calculate_cost(arg_original, arg_cf)} :
        /\ cost_result' = [called |-> TRUE, total |-> r.total, changes |-> r.changes]
        /\ arg_original' = r.original
        /\ arg_cf' = r.cf
    /\ UNCHANGED << customer_id, button, session_keys, report_ready,
                    report_data, best_cost, customer_data, dice_generated,
                    suggestions, error, rendered, report_for, repeat >>

NextCost == CallCalculateCost

SpecCost == InitCost /\ [][NextCost]_vars

\* ----------------------------------------------------------- properties

\* A report is stored in the session.
Stored == "report_data" \in session_keys

\* C1: in a stored report every option marked is_best has a cost no higher
\* than any option's, every option listed before it costs strictly more
\* (first-seen wins a tie), and best_cost is that option's cost.
C1_BestIsFirstMinimum ==
    Stored =>
        \A b \in 1..Len(report_data) :
            report_data[b].is_best =>
                /\ \A j \in 1..Len(report_data) :
                        report_data[b].cost <= report_data[j].cost
                /\ \A j \in 1..(b - 1) :
                        report_data[j].cost > report_data[b].cost
                /\ best_cost = report_data[b].cost

\* A stored report in which two options that change different columns tie
\* at a non-zero cost, and the earlier one is marked.
C1_Witness ==
    /\ Stored
    /\ \E b, j \in 1..Len(report_data) :
        /\ b < j
        /\ report_data[b].is_best
        /\ report_data[b].cost > 0
        /\ report_data[j].cost = report_data[b].cost
        /\ report_data[j].changes # report_data[b].changes

\* The number of options of data marked is_best.
NumBest(data) == Cardinality({ k \in 1..Len(data) : data[k].is_best })

\* C2: a run of the analysis over a non-empty candidate list stores a
\* report with one option per candidate of which exactly one is marked
\* is_best; a run over an empty list ends in an error and writes nothing to
\* the session (report_data, report_ready and best_cost stay as they were).
C2_ExactlyOneBestOrFailure ==
    [][ button' =>
          IF dice_generated' = << >>
          THEN error' # NoError /\ UNCHANGED session /\ ~rendered'.shown
          ELSE /\ error' = NoError
               /\ report_ready'
               /\ Len(report_data') = Len(dice_generated')
               /\ NumBest(report_data') = 1 ]_vars

\* An analysis over no candidates has just failed while an earlier report
\* of several options is still the one stored.
C2_Witness ==
    /\ button
    /\ dice_generated = << >>
    /\ error = "TypeError"
    /\ Stored
    /\ report_ready
    /\ Len(report_data) >= 2
    /\ NumBest(report_data) = 1

\* C5: an option marked is_best in a stored report has a non-empty change
\* list (a candidate equal to the customer's own row is never selected).
C5_BestHasChanges ==
    Stored =>
        \A k \in 1..Len(report_data) :
            report_data[k].is_best => report_data[k].changes # << >>

RECURSIVE Split(_)
\* The pieces of a joined text with the separators taken out.
Split(text) ==
    IF text = << >> THEN << >>
    ELSE IF Head(text) = Separator THEN Split(Tail(text))
    ELSE << Head(text) >> \o Split(Tail(text))

\* C7: whenever a report is rendered, screen and PDF list the same options
\* with the same id, cost text and changes, an option is green on screen
\* exactly if the PDF labels it "(Recommended)", which is exactly if it is
\* the is_best option, and both name the same option as the recommendation.
C7_ScreenAndPdfAgree ==
    rendered.shown =>
        LET scr == rendered.screen
            pdf == rendered.pdf
        IN  /\ Len(scr.options) = Len(report_data)
            /\ Len(pdf.options) = Len(report_data)
            /\ \A k \in 1..Len(report_data) :
                /\ scr.options[k].id = pdf.options[k].id
                /\ scr.options[k].cost = pdf.options[k].cost
                /\ scr.options[k].changes = Split(pdf.options[k].actions)
                /\ (scr.options[k].color = "green") <=> report_data[k].is_best
                /\ (pdf.options[k].status = "(Recommended)") <=> report_data[k].is_best
            /\ scr.rec_id = pdf.logic_id
            /\ scr.title_id = pdf.diag_id
            /\ scr.prob = pdf.prob

\* A rendered report of three options, one of them with two changes, and
\* two of them at the same cost with only one accepted.
C7_Witness ==
    /\ rendered.shown
    /\ Len(rendered.pdf.options) = 3
    /\ \E k \in 1..3 : Len(rendered.screen.options[k].changes) = 2
    /\ \E k, j \in 1..3 :
        /\ k # j
        /\ rendered.screen.options[k].cost = rendered.screen.options[j].cost
        /\ rendered.screen.options[k].color = "green"
        /\ rendered.pdf.options[j].status = "(Rejected)"

\* C8: after every script run the customer's frame holds the values of the
\* customer's row of X_test and the frame of candidates holds the rows the
\* generator returned, each with its outcome column.
C8_InputsNotMutated ==
    /\ customer_data = X_test(customer_id)
    /\ suggestions = dice_generated

\* An analysis over three candidates has run and stored its report.
C8_Witness ==
    /\ button
    /\ error = NoError
    /\ Len(dice_generated) = 3
    /\ Len(report_data) = 3
    /\ \E k \in 1..3 : report_data[k].changes # << >>

\* C9: an analysis run that follows an analysis run for the same customer
\* with the same candidate list leaves the same report: the same options in
\* the same order with the same costs and marks, the same best_cost, and the
\* same rendering.
C9_Deterministic ==
    [][ repeat' =>
          /\ report_data' = report_data
          /\ best_cost' = best_cost
          /\ report_ready' = report_ready
          /\ rendered' = rendered ]_vars

\* The second of two analyses of the same three candidates has stored.
C9_Witness ==
    /\ repeat
    /\ error = NoError
    /\ Len(dice_generated) = 3
    /\ Len(report_data) = 3
    /\ rendered.shown

\* C10: a rendered report was computed in an analysis run for the customer
\* under whose id and probability it is shown.
C10_ReportOfShownCustomer ==
    rendered.shown => report_for = customer_id

\* C3: the total of calculate_cost is never negative, and it is 0 exactly
\* if every column's absolute difference is within the tolerance.
C3_CostZeroIffWithinTolerance ==
    cost_result.called =>
        /\ cost_result.total >= 0
        /\ (cost_result.total = 0) <=>
              \A col \in ColSet :
                  Abs(arg_original[col] - arg_cf[col]) <= Tolerance

\* calculate_cost returned 0 for a candidate that is not the original.
C3_Witness ==
    /\ cost_result.called
    /\ cost_result.total = 0
    /\ arg_original # arg_cf

\* The columns whose absolute difference is over the tolerance.
ChangedCols ==
    { col \in ColSet : Abs(arg_original[col] - arg_cf[col]) > Tolerance }

\* The unit cost the claim names: the table's, and 10.0 off the table.
ClaimedUnitCost(col) ==
    CASE col = "MonthlyCharges"     -> 1
      [] col = "tenure"             -> 1000
      [] col = "TotalCharges"       -> 1
      [] col = "Contract_One year"  -> 50
      [] col = "Contract_Two year"  -> 100
      [] col = "InternetService_No" -> 5
      [] OTHER                      -> 10

RECURSIVE SumCost(_)
\* The sum of |difference| times unit cost over a set of columns.
SumCost(S) ==
    IF S = {} THEN 0
    ELSE LET col == CHOOSE c \in S : TRUE
         IN  Abs(arg_original[col] - arg_cf[col]) * ClaimedUnitCost(col)
             + SumCost(S \ {col})

\* The column an entry of the change list is about.
ChangeCol(change) == change[1]

\* C4: the total is the sum of |difference| times unit cost over exactly the
\* columns whose difference is over the tolerance, and the change list has
\* one entry for each of these columns, in column order, and no other.
C4_TotalAndChanges ==
    cost_result.called =>
        /\ cost_result.total = SumCost(ChangedCols)
        /\ [k \in 1..Len(cost_result.changes) |-> ChangeCol(cost_result.changes[k])]
               = SelectSeq(Columns, LAMBDA col : col \in ChangedCols)

\* calculate_cost listed two columns and left out one whose difference is
\* exactly the tolerance.
C4_Witness ==
    /\ cost_result.called
    /\ Len(cost_result.changes) = 2
    /\ \E col \in ColSet : Abs(arg_original[col] - arg_cf[col]) = Tolerance

====
